---- MODULE Spec2Model ----
(***************************************************************************)
(* Solar power plant financial dashboard (Home.py).                        *)
(*                                                                         *)
(* Home.py is a Streamlit script: every change of a slider reruns the      *)
(* whole script from the top with the widgets' current values.  The state  *)
(* of the program is therefore the ten slider values (`inputs`) and what   *)
(* the last run computed and displayed (`out`).                            *)
(*                                                                         *)
(* Numbers.  Python floats are modelled by exact arithmetic:               *)
(*   - an amount of money is a record [w, f] standing for w + f/120        *)
(*     rupees, 0 <= f < 120 (every amount the script derives from the      *)
(*     sliders is a multiple of 1/120 rupee, the annuity payment apart);   *)
(*   - rate_per_unit is carried in hundredths of a rupee (slider step      *)
(*     0.01), interest_rate in tenths of a percent (slider step 0.1);      *)
(*   - the annuity payment, which involves (1 + r) ** -n, is computed in   *)
(*     fixed point with scale PowScale and carried in whole rupees,        *)
(*     rounded down; the real value lies between AnnuityLo and AnnuityHi.  *)
(* Floating-point rounding error (about 1e-16 relative) is not modelled.   *)
(* Strings are sequences of one-character strings.                         *)
(***************************************************************************)
EXTENDS Integers, Sequences, FiniteSets, TLC

VARIABLES inputs, out, budget, memo, call, ret

vars == <<inputs, out, budget, memo, call, ret>>

None == [none |-> TRUE]

\* F(e), with e evaluated once
Bind(e, F(_)) == CHOOSE r \in {F(x) : x \in {e}} : TRUE

(***************************************************************************)
(* Exact amounts: w + f/120 rupees.                                        *)
(***************************************************************************)
MNorm(w, f) == [w |-> w + (f \div 120), f |-> f % 120]

MInt(n) == [w |-> n, f |-> 0]

MAdd(a, b) == MNorm(a.w + b.w, a.f + b.f)

MSub(a, b) == MNorm(a.w - b.w, a.f - b.f)

MNeg(a) == MNorm(-a.w, -a.f)

MMulInt(a, n) == MNorm(a.w * n, a.f * n)

\* a / 12, exact whenever a is a multiple of 1/10 rupee
MDiv12(a) == [w |-> a.w \div 12, f |-> (((a.w % 12) * 120) + a.f) \div 12]

\* x hundredths of a rupee, exact whenever x is a multiple of 5
MFromHundredths(x) == [w |-> x \div 100, f |-> ((x % 100) * 120) \div 100]

\* Python's round(): to the nearest integer, a tie to the even one
PyRound(a) ==
    IF a.f < 60 THEN a.w
    ELSE IF a.f > 60 THEN a.w + 1
    ELSE IF a.w % 2 = 0 THEN a.w ELSE a.w + 1

(***************************************************************************)
(* str(int): the decimal digits, a leading "-" for a negative number.      *)
(***************************************************************************)
DigitChars == <<"0", "1", "2", "3", "4", "5", "6", "7", "8", "9">>

DigitsOf[n \in Nat] ==
    IF n < 10 THEN <<DigitChars[n + 1]>>
    ELSE DigitsOf[n \div 10] \o <<DigitChars[(n % 10) + 1]>>

PyStrInt(n) == IF n < 0 THEN <<"-">> \o DigitsOf[-n] ELSE DigitsOf[n]

\* sep.join(parts)
Join(parts, sep) ==
    LET J[i \in 1..Len(parts)] ==
            IF i = Len(parts) THEN parts[i] ELSE parts[i] \o sep \o J[i + 1]
    IN  IF Len(parts) = 0 THEN <<>> ELSE J[1]

Reverse(s) == [i \in 1..Len(s) |-> s[Len(s) + 1 - i]]

(***************************************************************************)
(* format_inr (Home.py 7-26).                                              *)
(***************************************************************************)
Glyph == "₹"

\* a slip in lines 17-19: groups of three throughout (Western grouping)
RECURSIVE PeelPairsWestern(_, _)
PeelPairsWestern(rest, parts) ==
    IF Len(rest) > 3
    THEN Bind(<<SubSeq(rest, 1, Len(rest) - 3),
                Append(parts, SubSeq(rest, Len(rest) - 2, Len(rest)))>>,
              LAMBDA p : PeelPairsWestern(p[1], p[2]))
    ELSE IF Len(rest) > 0 THEN Append(parts, rest) ELSE parts

\* the while loop of lines 17-19 followed by lines 20-21
RECURSIVE PeelPairs(_, _)
PeelPairs(rest, parts) ==
    IF Len(rest) > 2
    THEN Bind(<<SubSeq(rest, 1, Len(rest) - 2),
                Append(parts, SubSeq(rest, Len(rest) - 1, Len(rest)))>>,
              LAMBDA p : PeelPairs(p[1], p[2]))
    ELSE IF Len(rest) > 0 THEN Append(parts, rest) ELSE parts

\* a slip in the slice of line 15: rest = s[:-2] keeps one digit twice
GroupDigitsOverlap(s) ==
    IF Len(s) > 3
    THEN LET last3 == SubSeq(s, Len(s) - 2, Len(s))
             rest  == SubSeq(s, 1, Len(s) - 2)
             parts == Reverse(PeelPairs(rest, <<>>))
         IN  Join(parts, <<",">>) \o <<",">> \o last3
    ELSE s

\* lines 12-25: s -> formatted
GroupDigits(s) ==
    IF Len(s) > 3
    THEN LET last3 == SubSeq(s, Len(s) - 2, Len(s))
             rest  == SubSeq(s, 1, Len(s) - 3)
             parts == Reverse(PeelPairs(rest, <<>>))
         IN  Join(parts, <<",">>) \o <<",">> \o last3
    ELSE s

format_inr(amount) ==
    <<Glyph>> \o Bind(PyStrInt(PyRound(amount)), LAMBDA s : GroupDigits(s))

\* format(x) of a float x (line 142): str(x), the decimal expansion with at
\* least one fractional digit, no glyph and no grouping.  The fraction is
\* printed to the thousandth, trailing zeros dropped.
StripZeros(d) ==
    IF d[3] # "0" THEN d
    ELSE IF d[2] # "0" THEN SubSeq(d, 1, 2)
    ELSE SubSeq(d, 1, 1)

PyFormatFloat(a) ==
    LET m  == IF a.w < 0 THEN MNeg(a) ELSE a
        th == (m.f * 1000) \div 120
        fr == <<DigitChars[(th \div 100) + 1], DigitChars[((th \div 10) % 10) + 1],
                DigitChars[(th % 10) + 1]>>
    IN  (IF a.w < 0 THEN <<"-">> ELSE <<>>) \o DigitsOf[m.w] \o <<".">> \o StripZeros(fr)

(***************************************************************************)
(* Arithmetic that stays inside TLC's 32-bit integers.                     *)
(***************************************************************************)
\* MulDivQR[a, b, d] = [q, r] with a * b = q * d + r and 0 <= r < d
MulDivStep(h, a, b, d) ==
    LET c2 == h.r >= d - h.r
        q2 == (2 * h.q) + (IF c2 THEN 1 ELSE 0)
        r2 == IF c2 THEN h.r - (d - h.r) ELSE 2 * h.r
        aq == a \div d
        ar == a % d
        c3 == r2 >= d - ar
    IN  IF b % 2 = 0 THEN [q |-> q2, r |-> r2]
        ELSE [q |-> q2 + aq + (IF c3 THEN 1 ELSE 0),
              r |-> IF c3 THEN r2 - (d - ar) ELSE r2 + ar]

MulDivQR[a \in Nat, b \in Nat, d \in Nat] ==
    IF b = 0 THEN [q |-> 0, r |-> 0]
    ELSE Bind(MulDivQR[a, b \div 2, d], LAMBDA h : MulDivStep(h, a, b, d))

\* floor(a * b / d)
MulDiv(a, b, d) == MulDivQR[a, b, d].q

(***************************************************************************)
(* The result of a step that may raise.                                    *)
(***************************************************************************)
Ok(v) == [error |-> "", value |-> v]

Raise(e) == [error |-> e, value |-> 0]

(***************************************************************************)
(* Loan payment calculation (Home.py 87-96).                               *)
(* t is interest_rate in tenths of a percent: annual_interest_rate =       *)
(* t / 1000.  PowNeg[t, n] is PowScale * (1 + r) ** -n, rounded down at    *)
(* each of the n steps: the real value lies in                             *)
(* [PowNeg[t, n], PowNeg[t, n] + n).                                       *)
(***************************************************************************)
PowScale == 500 * 1000 * 1000

PowNeg[t \in Nat, n \in Nat] ==
    IF n = 0 THEN PowScale ELSE MulDiv(PowNeg[t, n - 1], 1000, 1000 + t)

\* loan_amount * r / (denominator / PowScale)
AnnuityQuotient(loan_amount, t, denominator) ==
    MulDiv(loan_amount, t * (PowScale \div 1000), denominator)

\* a slip in line 92: the term off by one, (1 + r) ** -(n + 1)
AnnualPaymentTermPlusOne(loan_amount, t, n) ==
    IF t > 0
    THEN Bind(PowScale - PowNeg[t, n + 1], LAMBDA denominator :
              IF denominator = 0 THEN Raise("ZeroDivisionError")
              ELSE Ok(AnnuityQuotient(loan_amount, t, denominator)))
    ELSE IF n = 0 THEN Raise("ZeroDivisionError")
         ELSE Ok(loan_amount \div n)

\* a guard the code does not have: a zero term rejected before the division
AnnualPaymentGuarded(loan_amount, t, n) ==
    IF n = 0 THEN Raise("InvalidInput")
    ELSE IF t > 0
    THEN Ok(AnnuityQuotient(loan_amount, t, PowScale - PowNeg[t, n]))
    ELSE Ok(loan_amount \div n)

\* lines 91-94, in whole rupees (rounded down); a float division by zero
\* raises ZeroDivisionError
AnnualPayment(loan_amount, t, n) ==
    IF t > 0
    THEN Bind(PowScale - PowNeg[t, n], LAMBDA denominator :
              IF denominator = 0 THEN Raise("ZeroDivisionError")
              ELSE Ok(AnnuityQuotient(loan_amount, t, denominator)))
    ELSE IF n = 0 THEN Raise("ZeroDivisionError")
         ELSE Ok(loan_amount \div n)

\* lines 91-96: annual_payment and monthly_payment
LoanPayment(loan_amount, t, n) ==
    Bind(AnnualPayment(loan_amount, t, n), LAMBDA a :
         IF a.error # "" THEN a
         ELSE Ok([annual_payment |-> a.value, monthly_payment |-> MDiv12(MInt(a.value))]))

\* bounds of the real-valued annuity payment, t > 0 and n >= 1
AnnuityLo(loan_amount, t, n) == AnnuityQuotient(loan_amount, t, PowScale - PowNeg[t, n])

AnnuityHi(loan_amount, t, n) ==
    AnnuityQuotient(loan_amount, t, PowScale - PowNeg[t, n] - n) + 1

(***************************************************************************)
(* ROI (Home.py 103), in units of 1/10000 of a percent, rounded down.      *)
(***************************************************************************)
RoiScale == 1000 * 1000

\* (annual_income / total_cost) * 100; a division by zero raises
Quotient(annual_income, total_cost) ==
    IF total_cost = 0 THEN Raise("ZeroDivisionError")
    ELSE LET s  == IF annual_income.w < 0 THEN -1 ELSE 1
             k  == (annual_income.f * RoiScale) \div 120
         IN  Bind(MulDivQR[s * annual_income.w, RoiScale, total_cost], LAMBDA qr :
                  Ok((s * qr.q) + (((s * qr.r) + k) \div total_cost)))

\* line 103 without its conditional
RoiUnguarded(annual_income, total_cost) == Quotient(annual_income, total_cost)

Roi(annual_income, total_cost) ==
    IF total_cost # 0 THEN Quotient(annual_income, total_cost) ELSE Ok(0)

(***************************************************************************)
(* The script's assignments (Home.py 75-109, 189-220), each as an operator *)
(* of the names it reads.                                                  *)
(***************************************************************************)
revenue_per_day(average_production_per_mw_day, rate_per_unit, total_mw) ==
    MFromHundredths(average_production_per_mw_day * rate_per_unit * total_mw)

revenue_per_year(rev_per_day) == MMulInt(rev_per_day, 365)

revenue_per_month(rev_per_year) == MDiv12(rev_per_year)

working_cost_monthly(labor_cost, electricity_cost) == labor_cost + electricity_cost

working_cost_annual(wc_monthly) == wc_monthly * 12

total_cost(total_mw, cost_per_mw) == total_mw * cost_per_mw

\* total_cost * (debt_percent / 100); total_cost is a multiple of 100
\* (cost_per_mw has step 1000000), so the division is taken first
loan_amount(tot_cost, debt_percent) == (tot_cost \div 100) * debt_percent

monthly_income(rev_per_month, wc_monthly, monthly_payment) ==
    MSub(rev_per_month, MAdd(MInt(wc_monthly), monthly_payment))

annual_income(rev_per_year, wc_annual, annual_payment) ==
    MSub(rev_per_year, MInt(wc_annual + annual_payment))

\* [x] * n
Repeat(x, n) == [i \in 1..n |-> x]

cash_flows(tot_cost, ann_income, n_years) ==
    <<MInt(-tot_cost)>> \o Repeat(ann_income, n_years)

\* a slip: the running sum restarted after the initial outlay
CumSumSkipFirst(s) ==
    LET P[i \in 1..Len(s)] == IF i <= 2 THEN s[i] ELSE MAdd(P[i - 1], s[i])
    IN  [i \in 1..Len(s) |-> P[i]]

\* pd.Series(s).cumsum(): the running sum
CumSum(s) ==
    LET P[i \in 1..Len(s)] == IF i = 1 THEN s[1] ELSE MAdd(P[i - 1], s[i])
    IN  [i \in 1..Len(s) |-> P[i]]

years(n_years) == [i \in 1..(n_years + 1) |-> i - 1]

mw_range == [i \in 1..30 |-> i]

land_costs(cost_per_acre) == [i \in 1..30 |-> mw_range[i] * 4 * cost_per_acre]

\* a slip in line 219: the land added for one MW only
land_factored_cost_one_mw(tot_cost, cost_per_acre, total_mw) ==
    tot_cost + (4 * cost_per_acre)

land_factored_cost(tot_cost, cost_per_acre, total_mw) ==
    tot_cost + (4 * cost_per_acre * total_mw)

after_loan_cost(land_factored, loan) == land_factored - loan

\* f"{roi:.2f}%": two decimals, from the value in 1/10000 percent
PyFormatRoi(r4) ==
    LET m == IF r4 < 0 THEN -r4 ELSE r4
        c == (m + 50) \div 100
    IN  (IF r4 < 0 THEN <<"-">> ELSE <<>>) \o DigitsOf[c \div 100]
        \o <<".", DigitChars[((c \div 10) % 10) + 1], DigitChars[(c % 10) + 1], "%">>

(***************************************************************************)
(* One run of the script.  The values are computed in the order of the     *)
(* script's lines, each once: v is the record of the names assigned so     *)
(* far.                                                                    *)
(***************************************************************************)
\* lines 76-86
Lines76to86(in) ==
    Bind(revenue_per_day(in.average_production_per_mw_day, in.rate_per_unit, in.total_mw),
         LAMBDA rpd :
    Bind(revenue_per_year(rpd), LAMBDA rpy :
    Bind(working_cost_monthly(in.labor_cost, in.electricity_cost), LAMBDA wcm :
    Bind(total_cost(in.total_mw, in.cost_per_mw), LAMBDA tc :
         [ debt_percent         |-> in.debt_percent,
           n_years              |-> in.loan_term_years,
           revenue_per_day      |-> rpd,
           revenue_per_year     |-> rpy,
           revenue_per_month    |-> revenue_per_month(rpy),
           working_cost_monthly |-> wcm,
           working_cost_annual  |-> working_cost_annual(wcm),
           total_cost           |-> tc,
           loan_amount          |-> loan_amount(tc, in.debt_percent) ]))))

\* lines 87-109; a raise at the loan payment ends the run
Lines87to109(v, in) ==
    Bind(LoanPayment(v.loan_amount, in.interest_rate, in.loan_term_years), LAMBDA pay :
         IF pay.error # "" THEN [error |-> pay.error]
         ELSE
    Bind(annual_income(v.revenue_per_year, v.working_cost_annual, pay.value.annual_payment),
         LAMBDA ai :
    Bind(cash_flows(v.total_cost, ai, in.loan_term_years), LAMBDA cf :
         v @@
         [ error                |-> "",
           annual_payment       |-> pay.value.annual_payment,
           monthly_payment      |-> pay.value.monthly_payment,
           monthly_income       |-> monthly_income(v.revenue_per_month,
                                                   v.working_cost_monthly,
                                                   pay.value.monthly_payment),
           annual_income        |-> ai,
           roi                  |-> Roi(ai, v.total_cost).value,
           cash_flows           |-> cf,
           cumulative_cash_flow |-> CumSum(cf),
           years                |-> years(in.loan_term_years) ])))

\* lines 189-220
Lines189to220(v, in) ==
    IF v.error # "" THEN v
    ELSE Bind(land_factored_cost(v.total_cost, in.cost_per_acre, in.total_mw), LAMBDA lfc :
              v @@
              [ land_costs         |-> land_costs(in.cost_per_acre),
                land_factored_cost |-> lfc,
                after_loan_cost    |-> after_loan_cost(lfc, v.loan_amount) ])

Compute(in) ==
    Bind(Lines76to86(in), LAMBDA v1 :
    Bind(Lines87to109(v1, in), LAMBDA v2 : Lines189to220(v2, in)))

(***************************************************************************)
(* What the script shows (Home.py 115-148, 223-224): the value handed to   *)
(* each st.metric, by label, from the values v of the run.                 *)
(***************************************************************************)
metrics(v) ==
    [ MonthlyRevenue      |-> format_inr(v.revenue_per_month),
      AnnualRevenue       |-> format_inr(v.revenue_per_year),
      MonthlyWorkingCost  |-> format_inr(MInt(v.working_cost_monthly)),
      AnnualWorkingCost   |-> format_inr(MInt(v.working_cost_annual)),
      TotalProjectCost    |-> format_inr(MInt(v.total_cost)),
      LoanAmount          |-> format_inr(MInt(v.loan_amount)),
      DebtPercentage      |-> DigitsOf[v.debt_percent] \o <<"%">>,
      AnnualLoanPayment   |-> format_inr(MInt(v.annual_payment)),
      MonthlyLoanPayment  |-> format_inr(v.monthly_payment),
      MonthlyNetIncome    |-> format_inr(v.monthly_income),
      AnnualNetIncome     |-> PyFormatFloat(v.annual_income),
      ROI                 |-> PyFormatRoi(v.roi),
      TotalCostWithLand   |-> format_inr(MInt(v.land_factored_cost)),
      TotalCostAfterLoan  |-> format_inr(MInt(v.after_loan_cost)) ]

\* the bar chart (Home.py 155-171): each bar's value and text
bar_chart(v) ==
    Bind(MInt(v.working_cost_annual + v.annual_payment), LAMBDA costs :
         [ revenue |-> v.revenue_per_year, revenue_text |-> format_inr(v.revenue_per_year),
           costs   |-> costs,              costs_text   |-> format_inr(costs) ])

Script(in) ==
    Bind(Compute(in), LAMBDA v :
         IF v.error # "" THEN [values |-> v]
         ELSE [values |-> v, metrics |-> metrics(v), bar_chart |-> bar_chart(v)])

\* a name left over from the last run: after_loan_cost taken from the
\* previous run's loan_amount
RerunStaleLoan(prev, in) ==
    Bind(Script(in), LAMBDA o :
         [o EXCEPT !.values.after_loan_cost =
                       o.values.land_factored_cost - prev.values.loan_amount])

\* one run of the script: every name is assigned afresh, nothing of the
\* previous run (prev) is read
Rerun(prev, in) == Script(in)

(***************************************************************************)
(* The sliders (Home.py 40-73, 189).  Each slider is explored at a few of  *)
(* its positions: its minimum, its default and, where the sums stay within *)
(* 32 bits, its maximum.                                                   *)
(***************************************************************************)
ProductionMin == 0
ProductionDefault == 5500
RateMin == 200
RateDefault == 311
TotalMwMin == 1
TotalMwDefault == 8
LaborMin == 100000
LaborDefault == 250000
ElectricityMin == 5000
ElectricityDefault == 20000
CostPerMwDefault == 35000000
CostPerMwMax == 50000000
DebtMin == 0
DebtDefault == 80
DebtMax == 100
InterestMin == 10
InterestDefault == 100
TermMin == 1
TermDefault == 25
CostPerAcreDefault == 1500000
CostPerAcreMax == 4000000

Positions ==
    [ average_production_per_mw_day |-> {ProductionMin, ProductionDefault},
      rate_per_unit                 |-> {RateMin, RateDefault},
      total_mw                      |-> {TotalMwMin, TotalMwDefault},
      labor_cost                    |-> {LaborMin, LaborDefault},
      electricity_cost              |-> {ElectricityMin, ElectricityDefault},
      cost_per_mw                   |-> {CostPerMwDefault, CostPerMwMax},
      debt_percent                  |-> {DebtMin, DebtDefault, DebtMax},
      interest_rate                 |-> {InterestMin, InterestDefault},
      loan_term_years               |-> {TermMin, TermDefault},
      cost_per_acre                 |-> {CostPerAcreDefault, CostPerAcreMax} ]

\* the widgets' values on the first run (each slider's value=)
Defaults ==
    [ average_production_per_mw_day |-> ProductionDefault,
      rate_per_unit                 |-> RateDefault,
      total_mw                      |-> TotalMwDefault,
      labor_cost                    |-> LaborDefault,
      electricity_cost              |-> ElectricityDefault,
      cost_per_mw                   |-> CostPerMwDefault,
      debt_percent                  |-> DebtDefault,
      interest_rate                 |-> InterestDefault,
      loan_term_years               |-> TermDefault,
      cost_per_acre                 |-> CostPerAcreDefault ]

(***************************************************************************)
(* The dashboard: a slider is moved and the script reruns.                 *)
(* budget bounds the number of reruns explored where it is limited; memo   *)
(* is a snapshot of an earlier run, kept to compare runs with one another. *)
(***************************************************************************)
Unlimited == [limited |-> FALSE, left |-> 0]

NoCall == [fn |-> "none"]

Init ==
    /\ inputs = Defaults
    /\ out = Script(Defaults)
    /\ budget = Unlimited
    /\ memo = None
    /\ call = NoCall
    /\ ret = None

CanRerun == budget.limited => budget.left > 0

\* the user moves slider `field` to v; Streamlit reruns the script
Move(field, v) ==
    /\ v # inputs[field]
    /\ inputs' = [inputs EXCEPT ![field] = v]
    /\ out' = Rerun(out, inputs')
    /\ budget' = IF budget.limited THEN [budget EXCEPT !.left = @ - 1] ELSE budget
    /\ UNCHANGED <<memo, call, ret>>

Set_average_production_per_mw_day ==
    /\ CanRerun
    /\ \E v \in Positions.average_production_per_mw_day : Move("average_production_per_mw_day", v)

Set_rate_per_unit ==
    /\ CanRerun
    /\ \E v \in Positions.rate_per_unit : Move("rate_per_unit", v)

Set_total_mw ==
    /\ CanRerun
    /\ \E v \in Positions.total_mw : Move("total_mw", v)

Set_labor_cost ==
    /\ CanRerun
    /\ \E v \in Positions.labor_cost : Move("labor_cost", v)

Set_electricity_cost ==
    /\ CanRerun
    /\ \E v \in Positions.electricity_cost : Move("electricity_cost", v)

Set_cost_per_mw ==
    /\ CanRerun
    /\ \E v \in Positions.cost_per_mw : Move("cost_per_mw", v)

Set_debt_percent ==
    /\ CanRerun
    /\ \E v \in Positions.debt_percent : Move("debt_percent", v)

Set_interest_rate ==
    /\ CanRerun
    /\ \E v \in Positions.interest_rate : Move("interest_rate", v)

Set_loan_term_years ==
    /\ CanRerun
    /\ \E v \in Positions.loan_term_years : Move("loan_term_years", v)

Set_cost_per_acre ==
    /\ CanRerun
    /\ \E v \in Positions.cost_per_acre : Move("cost_per_acre", v)

Next ==
    \/ Set_average_production_per_mw_day
    \/ Set_rate_per_unit
    \/ Set_total_mw
    \/ Set_labor_cost
    \/ Set_electricity_cost
    \/ Set_cost_per_mw
    \/ Set_debt_percent
    \/ Set_interest_rate
    \/ Set_loan_term_years
    \/ Set_cost_per_acre

Spec == Init /\ [][Next]_vars

(***************************************************************************)
(* Reruns compared with one another.  Remember keeps a snapshot of the     *)
(* current run (it is the observer's step, not the program's); the runs    *)
(* explored after the first are limited to MaxRuns.                        *)
(***************************************************************************)
MaxRuns == 2

InitRerun ==
    /\ inputs = Defaults
    /\ out = Script(Defaults)
    /\ budget = [limited |-> TRUE, left |-> MaxRuns]
    /\ memo = None
    /\ call = NoCall
    /\ ret = None

Remember ==
    /\ memo = None
    /\ memo' = [inputs |-> inputs, out |-> out, left |-> budget.left]
    /\ UNCHANGED <<inputs, out, budget, call, ret>>

NextRerun ==
    \/ Set_average_production_per_mw_day
    \/ Set_rate_per_unit
    \/ Set_total_mw
    \/ Set_labor_cost
    \/ Set_electricity_cost
    \/ Set_cost_per_mw
    \/ Set_debt_percent
    \/ Set_interest_rate
    \/ Set_loan_term_years
    \/ Set_cost_per_acre
    \/ Remember

SpecRerun == InitRerun /\ [][NextRerun]_vars

(***************************************************************************)
(* The functions on their own: format_inr, the loan payment and the ROI    *)
(* expression applied to arguments drawn from bounded sets, which reach    *)
(* past the sliders' ranges where the code has a branch for it (a rate of  *)
(* zero, a term of zero, a total cost of zero, a negative amount).         *)
(***************************************************************************)
MaxDigits == 8
MaxTerm == 25
MaxIncome == 5
MaxCost == 4

Pow10[k \in Nat] == IF k = 0 THEN 1 ELSE 10 * Pow10[k - 1]

\* 1, 12, 123, ..., 1234567, ...
Ramp[k \in Nat] == IF k = 0 THEN 0 ELSE (10 * Ramp[k - 1]) + (k % 10)

Wholes ==
    {0} \cup {Pow10[k] - 1 : k \in 1..MaxDigits} \cup {Pow10[k] : k \in 1..MaxDigits}
        \cup {Ramp[k] : k \in 1..MaxDigits}

NonNegativeAmounts == {[w |-> w, f |-> f] : w \in Wholes, f \in {0, 59, 60, 61}}

Amounts == NonNegativeAmounts \cup {MNeg(a) : a \in NonNegativeAmounts}

LoanAmounts == {0, 1000, 224000000, 1250000000}

InterestTenths == {0, 10, 100, 200}

Incomes == {[w |-> w, f |-> f] : w \in (-MaxIncome)..MaxIncome, f \in {0, 60}}

Call_format_inr ==
    \E amount \in Amounts :
        /\ call = NoCall
        /\ call' = [fn |-> "format_inr", amount |-> amount]
        /\ ret' = format_inr(amount)
        /\ UNCHANGED <<inputs, out, budget, memo>>

Call_loan_payment ==
    \E la \in LoanAmounts, t \in InterestTenths, n \in 0..MaxTerm :
        /\ call = NoCall
        /\ call' = [fn |-> "loan_payment", loan_amount |-> la, t |-> t, n |-> n]
        /\ ret' = LoanPayment(la, t, n)
        /\ UNCHANGED <<inputs, out, budget, memo>>

Call_roi ==
    \E ai \in Incomes, tc \in 0..MaxCost :
        /\ call = NoCall
        /\ call' = [fn |-> "roi", annual_income |-> ai, total_cost |-> tc]
        /\ ret' = Roi(ai, tc)
        /\ UNCHANGED <<inputs, out, budget, memo>>

\* the call returns; the next one starts afresh
Return ==
    /\ call # NoCall
    /\ call' = NoCall
    /\ ret' = None
    /\ UNCHANGED <<inputs, out, budget, memo>>

NextUnit ==
    \/ Call_format_inr
    \/ Call_loan_payment
    \/ Call_roi
    \/ Return

SpecUnit == Init /\ [][NextUnit]_vars

(***************************************************************************)
(* Helpers of the properties.                                              *)
(***************************************************************************)
IsDigit(c) == \E d \in 1..10 : DigitChars[d] = c

DigitValue(c) == (CHOOSE d \in 1..10 : DigitChars[d] = c) - 1

NumDigits[n \in Nat] == IF n < 10 THEN 1 ELSE 1 + NumDigits[n \div 10]

\* int(s) of a string of digits
ParseInt(s) ==
    LET V[i \in 0..Len(s)] == IF i = 0 THEN 0 ELSE (10 * V[i - 1]) + DigitValue(s[i])
    IN  V[Len(s)]

WithoutChar(s, c) == SelectSeq(s, LAMBDA x : x # c)

\* s.split(",")
SplitCommas(s) ==
    LET commas == {i \in 1..Len(s) : s[i] = ","}
        cuts   == {0} \cup commas \cup {Len(s) + 1}
        next(i) == CHOOSE j \in cuts : j > i /\ \A k \in cuts : k > i => j <= k
        G[i \in cuts \ {Len(s) + 1}] ==
            <<SubSeq(s, i + 1, next(i) - 1)>>
                \o (IF next(i) = Len(s) + 1 THEN <<>> ELSE G[next(i)])
    IN  G[0]

\* the balance after n yearly payments of p on a loan at t/1000 a year,
\* the interest of each year rounded up or down to the rupee
Interest(b, t, up) ==
    LET qr == MulDivQR[b, t, 1000]
    IN  qr.q + (IF up /\ qr.r > 0 THEN 1 ELSE 0)

Amortize(la, t, n, p, up) ==
    LET B[k \in 0..n] ==
            IF k = 0 THEN la
            ELSE LET b == B[k - 1]
                 IN  IF b <= 0 THEN b ELSE b + Interest(b, t, up) - p
    IN  B[n]

(***************************************************************************)
(* C1.  For every non-negative amount, format_inr(amount) is the glyph     *)
(* followed by the decimal digits of round(amount), in order, grouped: at  *)
(* most 3 digits carry no comma; otherwise the rightmost group has exactly *)
(* 3 digits, every group between has exactly 2 and the leftmost has 1 or   *)
(* 2.  0 -> ₹0, 999 -> ₹999, 1000 -> ₹1,000, 1234567 -> ₹12,34,567.        *)
(***************************************************************************)
C1_SouthAsianGrouping ==
    (call.fn = "format_inr" /\ call.amount.w >= 0) =>
        LET n      == PyRound(call.amount)
            nd     == NumDigits[n]
            body   == Tail(ret)
            groups == SplitCommas(body)
            digits == WithoutChar(body, ",")
            g      == Len(groups)
        IN  /\ ret[1] = Glyph
            /\ Len(digits) = nd
            /\ \A i \in 1..nd : digits[i] = DigitChars[((n \div Pow10[nd - i]) % 10) + 1]
            /\ \A i \in 1..g : \A j \in 1..Len(groups[i]) : IsDigit(groups[i][j])
            /\ nd <= 3 => g = 1
            /\ nd > 3 =>
                /\ g >= 2
                /\ Len(groups[g]) = 3
                /\ \A i \in 2..(g - 1) : Len(groups[i]) = 2
                /\ Len(groups[1]) \in {1, 2}
            /\ call.amount = MInt(0) => ret = <<Glyph, "0">>
            /\ call.amount = MInt(999) => ret = <<Glyph, "9", "9", "9">>
            /\ call.amount = MInt(1000) => ret = <<Glyph, "1", ",", "0", "0", "0">>
            /\ call.amount = MInt(1234567) =>
                   ret = <<Glyph, "1", "2", ",", "3", "4", ",", "5", "6", "7">>

C1_Witness ==
    /\ call.fn = "format_inr"
    /\ call.amount = MInt(1234567)
    /\ ret = <<Glyph, "1", "2", ",", "3", "4", ",", "5", "6", "7">>

(***************************************************************************)
(* C2.  Round trip: for every x >= 0, format_inr(x) without its glyph and  *)
(* its commas, parsed as an integer, is round(x); it has as many digits as *)
(* round(x), none lost or repeated.                                        *)
(***************************************************************************)
C2_RoundTrip ==
    (call.fn = "format_inr" /\ call.amount.w >= 0) =>
        LET digits == WithoutChar(WithoutChar(ret, Glyph), ",")
        IN  /\ ParseInt(digits) = PyRound(call.amount)
            /\ Len(digits) = NumDigits[PyRound(call.amount)]

\* a tie rounded to the even integer, and a carry into a new digit
C2_Witness ==
    /\ call.fn = "format_inr"
    /\ call.amount = [w |-> 99999, f |-> 60]
    /\ ParseInt(WithoutChar(WithoutChar(ret, Glyph), ",")) = 100000

(***************************************************************************)
(* C3.  For every negative amount the minus sign stays outside the         *)
(* grouping: the digits are grouped as those of |round(amount)| are, so    *)
(* the result without its minus sign is format_inr(|amount|).              *)
(***************************************************************************)
C3_SignOutsideGrouping ==
    (call.fn = "format_inr" /\ call.amount.w < 0) =>
        WithoutChar(ret, "-") = format_inr(MNeg(call.amount))

(***************************************************************************)
(* C4.  cash_flows has length n + 1, starts with -total_cost and is        *)
(* annual_income from then on; cumulative_cash_flow is its running sum,    *)
(* -total_cost + i * annual_income at year i, so its last element is       *)
(* -total_cost + n * annual_income; years is 0..n, of the same length.     *)
(***************************************************************************)
C4_CashFlowSeries ==
    LET v   == out.values
        n   == inputs.loan_term_years
        cum == v.cumulative_cash_flow
    IN  /\ Len(v.cash_flows) = n + 1
        /\ v.cash_flows[1] = MInt(-v.total_cost)
        /\ \A i \in 2..(n + 1) : v.cash_flows[i] = v.annual_income
        /\ Len(cum) = n + 1
        /\ \A i \in 0..n :
               cum[i + 1] = MAdd(MInt(-v.total_cost), MMulInt(v.annual_income, i))
        /\ Len(v.years) = Len(cum)
        /\ \A i \in 0..n : v.years[i + 1] = i

\* 25 years, the outlay recovered within the term
C4_Witness ==
    /\ inputs.loan_term_years = TermDefault
    /\ inputs.debt_percent = DebtMax
    /\ out.values.annual_income.w > 0
    /\ out.values.cumulative_cash_flow[2].w < 0
    /\ out.values.cumulative_cash_flow[TermDefault + 1].w > 0

(***************************************************************************)
(* C5.  ROI is guarded against division by zero: with total_cost = 0 the   *)
(* roi is exactly 0 and nothing is raised; otherwise roi is                *)
(* (annual_income / total_cost) * 100 (here its floor in 1/10000 percent). *)
(***************************************************************************)
C5_RoiGuard ==
    call.fn = "roi" =>
        LET tc  == call.total_cost
            num == (call.annual_income.w * RoiScale)
                       + ((call.annual_income.f * RoiScale) \div 120)
        IN  /\ ret.error = ""
            /\ tc = 0 => ret.value = 0
            /\ tc # 0 => /\ ret.value * tc <= num
                         /\ num < (ret.value + 1) * tc

C5_Witness ==
    /\ call.fn = "roi"
    /\ call.total_cost = 0
    /\ call.annual_income.w < 0
    /\ ret = Ok(0)

(***************************************************************************)
(* C6.  As claimed: a loan term of zero years makes the amortization step  *)
(* fail with InvalidInput, whatever the rate.                              *)
(***************************************************************************)
C6_ZeroTermInvalidInput ==
    (call.fn = "loan_payment" /\ call.n = 0) => ret.error = "InvalidInput"

(***************************************************************************)
(* C6, amended.  With a loan term of zero years the amortization step      *)
(* divides by zero: it raises ZeroDivisionError, in the r > 0 branch and   *)
(* in the r = 0 branch, and yields no payment; with a term of one year or  *)
(* more it raises nothing.                                                 *)
(***************************************************************************)
C6_ZeroTermDividesByZero ==
    call.fn = "loan_payment" =>
        /\ call.n = 0 => ret = Raise("ZeroDivisionError")
        /\ call.n >= 1 => ret.error = ""

C6_Witness ==
    /\ call.fn = "loan_payment"
    /\ call.n = 0
    /\ call.t > 0
    /\ call.loan_amount > 0
    /\ ret.error = "ZeroDivisionError"

(***************************************************************************)
(* C7.  Every currency metric shown is format_inr of that metric.          *)
(***************************************************************************)
C7_CurrencyMetricsUseFormatInr ==
    LET v == out.values
        m == out.metrics
    IN  /\ m.MonthlyRevenue = format_inr(v.revenue_per_month)
        /\ m.AnnualRevenue = format_inr(v.revenue_per_year)
        /\ m.MonthlyWorkingCost = format_inr(MInt(v.working_cost_monthly))
        /\ m.AnnualWorkingCost = format_inr(MInt(v.working_cost_annual))
        /\ m.TotalProjectCost = format_inr(MInt(v.total_cost))
        /\ m.LoanAmount = format_inr(MInt(v.loan_amount))
        /\ m.AnnualLoanPayment = format_inr(MInt(v.annual_payment))
        /\ m.MonthlyLoanPayment = format_inr(v.monthly_payment)
        /\ m.MonthlyNetIncome = format_inr(v.monthly_income)
        /\ m.AnnualNetIncome = format_inr(v.annual_income)
        /\ m.TotalCostWithLand = format_inr(MInt(v.land_factored_cost))
        /\ m.TotalCostAfterLoan = format_inr(MInt(v.after_loan_cost))

(***************************************************************************)
(* C8.  The loan payment is the fixed-payment annuity: for r > 0 and       *)
(* n >= 1, n yearly payments of annual_payment amortize the loan (the      *)
(* payment, rounded down to the rupee, leaves no negative balance, and     *)
(* 0.01% + 2 rupees more leaves no positive one); for r = 0 it is          *)
(* loan_amount / n; monthly_payment is annual_payment / 12; and for        *)
(* 224000000 at 10% over 25 years it is within 1% of 24680000.             *)
(***************************************************************************)
C8_AnnuityPayment ==
    (call.fn = "loan_payment" /\ call.n >= 1) =>
        LET la == call.loan_amount
            t  == call.t
            n  == call.n
            p  == ret.value.annual_payment
        IN  /\ ret.error = ""
            /\ t > 0 => /\ Amortize(la, t, n, p, TRUE) >= 0
                        /\ Amortize(la, t, n, p + (p \div 10000) + 2, FALSE) <= 0
            /\ t = 0 => /\ p * n <= la
                        /\ la < (p + 1) * n
            /\ MMulInt(ret.value.monthly_payment, 12) = MInt(p)
            /\ (la = 224000000 /\ t = 100 /\ n = 25) =>
                   /\ 24433200 <= p
                   /\ AnnuityHi(la, t, n) <= 24926800

C8_Witness ==
    /\ call.fn = "loan_payment"
    /\ call.loan_amount = 224000000
    /\ call.t = 100
    /\ call.n = 25
    /\ ret.value.annual_payment = 24677647
    /\ AnnuityHi(224000000, 100, 25) - ret.value.annual_payment <= 3

C10_CapitalOrdering ==
    LET v    == out.values
        land == v.land_costs[inputs.total_mw]
    IN  /\ 0 <= v.loan_amount
        /\ v.loan_amount <= v.total_cost
        /\ v.total_cost < v.land_factored_cost
        /\ v.land_factored_cost - v.total_cost = land
        /\ land = inputs.total_mw * 4 * inputs.cost_per_acre
        /\ v.after_loan_cost = v.land_factored_cost - v.loan_amount
        /\ v.after_loan_cost > 0
        /\ v.after_loan_cost >= land
        /\ inputs.debt_percent = 0 => v.loan_amount = 0
        /\ inputs.debt_percent = 100 => v.loan_amount = v.total_cost

\* fully financed: what is left to pay is the land
C10_Witness ==
    /\ inputs.debt_percent = DebtMax
    /\ inputs.total_mw = TotalMwDefault
    /\ out.values.loan_amount = out.values.total_cost
    /\ out.values.after_loan_cost = out.values.land_costs[TotalMwDefault]

====
